---- MODULE Spec2Model ----
(***************************************************************************)
(* calculate_scores (src/Mathematics.py): the interview score calculator.  *)
(*                                                                         *)
(* Number model.  The program computes in Python floats: every arithmetic  *)
(* operation returns the representable number nearest to the exact result  *)
(* (ties to even).  The model keeps that contract on a decimal grid: a     *)
(* float is an integer count of 1/Scale, addition and subtraction are      *)
(* exact, and Mul, Div, DivInt and Exp round their exact result to the     *)
(* grid, ties to even.  Integer-valued inputs that the code only uses in   *)
(* ratios and comparisons (the T_*, E_* and K_* fields, the question       *)
(* count) stay plain integers, as they are Python ints in the code.        *)
(***************************************************************************)
EXTENDS Integers, Sequences, FiniteSets

\* One unit of the grid is 1/Scale.
Scale == 10^7

\* The decimal literal n/d of the source text (d a power of ten dividing Scale).
Dec(n, d) == n * (Scale \div d)

\* An integer of the code used as a float.
FromInt(n) == n * Scale

Abs(x) == IF x < 0 THEN -x ELSE x

Sgn(x) == IF x < 0 THEN -1 ELSE 1

Min(a, b) == IF a <= b THEN a ELSE b

Max(a, b) == IF a >= b THEN a ELSE b

\* q or q+1: the quotient q with remainder r of a division by b, rounded to
\* nearest, ties to even.
RoundQuot(q, r, b) ==
    IF 2 * r > b \/ (2 * r = b /\ q % 2 = 1) THEN q + 1 ELSE q

\* Long division: k more decimal digits of the quotient q, remainder r, of a
\* division by b.  Returns <<quotient, remainder>>.
RECURSIVE Digits(_, _, _, _)
Digits(q, r, b, k) ==
    IF k = 0 THEN <<q, r>>
    ELSE Digits(q * 10 + ((r * 10) \div b), (r * 10) % b, b, k - 1)

\* The largest magnitude the grid holds: a quotient beyond it saturates here.
\* (A Python float overflows only near 1.8e308; the one quotient of the
\* program that can be large, the improvement ratio, is clamped into [0,1]
\* right after the division.)
Huge == 200 * Scale

\* a / b, true division: both operands are floats of the grid, or both plain
\* integers.  The result is a float of the grid.  b # 0.
Div(a, b) ==
    LET A == Abs(a)
        B == Abs(b)
        d == Digits(A \div B, A % B, B, 7)
    IN  IF A \div B >= 200 THEN Sgn(a) * Sgn(b) * Huge
        ELSE Sgn(a) * Sgn(b) * RoundQuot(d[1], d[2], B)

\* a / n: a float divided by a plain integer n # 0.
DivInt(a, n) ==
    LET A == Abs(a)
        B == Abs(n)
    IN  Sgn(a) * Sgn(n) * RoundQuot(A \div B, A % B, B)

\* a * b of two floats.  The exact product A*B is assembled from the halves
\* of the operands (A = ah*10^4 + al), then divided by Scale and rounded.
Mul(a, b) ==
    LET A == Abs(a)
        B == Abs(b)
        ah == A \div 10000
        al == A % 10000
        bh == B \div 10000
        bl == B % 10000
        low == al * bl
        t == ah * bl + al * bh + (low \div 10000)
        q == ah * bh * 10 + (t \div 1000)
        r == (t % 1000) * 10000 + (low % 10000)
    IN  Sgn(a) * Sgn(b) * RoundQuot(q, r, Scale)

\* The Taylor series of exp(x) from its k-th term on, term being x^(k-1)/(k-1)!.
RECURSIVE ExpSeries(_, _, _)
ExpSeries(x, term, k) ==
    IF term = 0 THEN 0
    ELSE term + ExpSeries(x, DivInt(Mul(term, x), k), k + 1)

\* math.exp(x) for |x| <= 1, to within a few units of the grid.
Exp(x) == ExpSeries(x, Scale, 1)

\* round(x, 2): x rounded to two decimals, ties to even; still a float.
Round2(x) ==
    LET u == Scale \div 100
    IN  DivInt(x, u) * u

-----------------------------------------------------------------------------
(* Inputs.  A question is the dict of the code: a record of its fields     *)
(* plus `absent`, the set of keys the dict does not hold.  The config      *)
(* likewise (its `absent` may name "weights", "hint_budget" or a key of    *)
(* the weights dict).                                                      *)

One == Scale

Ten == FromInt(10)

\* epsilon = 1e-6
epsilon == Scale \div 1000000

Has(d, key) == key \notin d.absent

RECURSIVE SumSeq(_)
SumSeq(s) == IF s = <<>> THEN 0 ELSE s[1] + SumSeq(Tail(s))

-----------------------------------------------------------------------------
(* The body of the per-question loop, lines 31-53.                         *)

\* Mutant of think_ratio_term: the minus sign of the exponent is lost.
think_ratio_term_NoMinus(q) ==
    LET d == Div(q.T_think, q.T_total) - Dec(3, 10)
    IN  Exp(Mul(d, d))

\* line 33
think_ratio_term(q) ==
    LET d == Div(q.T_think, q.T_total) - Dec(3, 10)
    IN  Exp(-Mul(d, d))

\* line 34
score_ps(q) ==
    Mul(Ten, Mul(Dec(6, 10), Div(q.E_covered, q.E_total))
             + Mul(Dec(4, 10), Min(One, think_ratio_term(q))))

\* line 38
improvement_numerator(q) == q.C_initial - q.C_final

\* line 39
improvement_denominator(q) == q.C_initial - q.C_target + epsilon

\* Mutant of improvement_factor: the ratio is not clamped into [0,1].
improvement_factor_Unclamped(q) ==
    Div(improvement_numerator(q), improvement_denominator(q))

\* line 40
improvement_factor(q) ==
    Max(0, Min(One, Div(improvement_numerator(q), improvement_denominator(q))))

\* line 42
keystroke_efficiency(q) ==
    IF q.K_total > 0 THEN Div(q.K_useful, q.K_total) ELSE 0

\* line 43
score_code(q) ==
    Mul(Ten, Mul(Dec(5, 10), improvement_factor(q))
             + Mul(Dec(3, 10), q.S_lint)
             + Mul(Dec(2, 10), keystroke_efficiency(q)))

\* line 47
stuck_ratio(q) ==
    IF q.T_total > 0 THEN Div(q.T_stuck, q.T_total) ELSE One

\* line 48
score_resilience(q) ==
    Mul(Ten, Mul(One - stuck_ratio(q), q.S_sentiment))

\* line 52: q.get('H_types', [])
HintsOf(q) == IF Has(q, "H_types") THEN q.H_types ELSE <<>>

\* Mutant of QuestionRaises: S_lint is read with a default, so that its
\* absence goes unnoticed.
QuestionRaises_LintDefaulted(q) ==
    IF ~Has(q, "T_think") \/ ~Has(q, "T_total") THEN "KeyError"
    ELSE IF q.T_total = 0 THEN "ZeroDivisionError"
    ELSE IF ~Has(q, "E_covered") \/ ~Has(q, "E_total") THEN "KeyError"
    ELSE IF q.E_total = 0 THEN "ZeroDivisionError"
    ELSE IF ~Has(q, "C_initial") \/ ~Has(q, "C_final") \/ ~Has(q, "C_target")
         THEN "KeyError"
    ELSE IF improvement_denominator(q) = 0 THEN "ZeroDivisionError"
    ELSE IF ~Has(q, "K_total") THEN "KeyError"
    ELSE IF q.K_total > 0 /\ ~Has(q, "K_useful") THEN "KeyError"
    ELSE IF q.T_total > 0 /\ ~Has(q, "T_stuck") THEN "KeyError"
    ELSE IF ~Has(q, "S_sentiment") THEN "KeyError"
    ELSE IF ~Has(q, "Q_difficulty") THEN "KeyError"
    ELSE "none"

\* What one pass of the loop body raises on q, "none" if it completes: the
\* first failing subscript or division in the order the body evaluates them.
QuestionRaises(q) ==
    IF ~Has(q, "T_think") \/ ~Has(q, "T_total") THEN "KeyError"
    ELSE IF q.T_total = 0 THEN "ZeroDivisionError"
    ELSE IF ~Has(q, "E_covered") \/ ~Has(q, "E_total") THEN "KeyError"
    ELSE IF q.E_total = 0 THEN "ZeroDivisionError"
    ELSE IF ~Has(q, "C_initial") \/ ~Has(q, "C_final") \/ ~Has(q, "C_target")
         THEN "KeyError"
    ELSE IF improvement_denominator(q) = 0 THEN "ZeroDivisionError"
    ELSE IF ~Has(q, "K_total") THEN "KeyError"
    ELSE IF q.K_total > 0 /\ ~Has(q, "K_useful") THEN "KeyError"
    ELSE IF ~Has(q, "S_lint") THEN "KeyError"
    ELSE IF q.T_total > 0 /\ ~Has(q, "T_stuck") THEN "KeyError"
    ELSE IF ~Has(q, "S_sentiment") THEN "KeyError"
    ELSE IF ~Has(q, "Q_difficulty") THEN "KeyError"
    ELSE "none"

-----------------------------------------------------------------------------
(* The interview-wide part, lines 56-73.                                   *)

\* lines 56-58: sum(scores) / num_questions if num_questions > 0 else 0
Average(scores) ==
    IF Len(scores) > 0 THEN DivInt(SumSeq(scores), Len(scores)) ELSE 0

\* line 61: interview_config.get('hint_budget', 1.0)
HintBudget(config) ==
    IF Has(config, "hint_budget") THEN config.hint_budget ELSE One

\* line 61
autonomy_denominator(difficulty, config) == Mul(difficulty, HintBudget(config))

\* Mutant of autonomy_term: the used share of the budget instead of the
\* unused one.
autonomy_term_UsedShare(hints, denominator) ==
    IF denominator > 0 THEN Div(hints, denominator) ELSE One

\* line 62
autonomy_term(hints, denominator) ==
    IF denominator > 0 THEN One - Div(hints, denominator) ELSE One

\* Mutant of AutonomyScore: no floor at 0.
AutonomyScore_NoFloor(hints, denominator) ==
    Mul(Ten, autonomy_term(hints, denominator))

\* line 63
AutonomyScore(hints, denominator) ==
    Mul(Ten, Max(0, autonomy_term(hints, denominator)))

\* lines 66-68: the subscripts of the config and of its weights
WeightKeys == {"ps", "code", "resilience", "autonomy"}

\* line 69: sum(w.values())
base_score_denominator(w) == w.ps + w.code + w.resilience + w.autonomy

\* lines 67-68
base_score_numerator(w, ps, code, resilience, autonomy) ==
    Mul(w.ps, ps) + Mul(w.code, code) + Mul(w.resilience, resilience)
    + Mul(w.autonomy, autonomy)

\* line 70
BaseScore(w, ps, code, resilience, autonomy) ==
    Div(base_score_numerator(w, ps, code, resilience, autonomy),
        base_score_denominator(w))

\* What lines 66-70 raise on the config, "none" if they complete.
ConfigRaises(config) ==
    IF ~Has(config, "weights") THEN "KeyError"
    ELSE IF \E k \in WeightKeys : ~Has(config, k) THEN "KeyError"
    ELSE IF base_score_denominator(config.weights) = 0 THEN "ZeroDivisionError"
    ELSE "none"

\* Mutant of DifficultyFactor: the fallback for no questions is 0.
DifficultyFactor_ZeroFallback(difficulty, n) ==
    IF n > 0 THEN DivInt(difficulty, 3 * n) ELSE 0

\* line 72
DifficultyFactor(difficulty, n) ==
    IF n > 0 THEN DivInt(difficulty, 3 * n) ELSE One

\* Mutant of OverallScore: computed from the rounded values of the report.
OverallScore_FromRounded(base, factor) ==
    Mul(Round2(base), Dec(8, 10) + Mul(Dec(4, 10), Round2(factor)))

\* line 73
OverallScore(base, factor) == Mul(base, Dec(8, 10) + Mul(Dec(4, 10), factor))

-----------------------------------------------------------------------------
(* The inputs the model explores.                                          *)

\* The longest list of questions drawn from SampleQuestions.
MaxQuestions == 2

Question(timing, coverage, complexity, lint, keys, sentiment, hints, difficulty) ==
    [T_think |-> timing[1], T_total |-> timing[2], T_stuck |-> timing[3],
     E_covered |-> coverage[1], E_total |-> coverage[2],
     C_initial |-> complexity[1], C_final |-> complexity[2],
     C_target |-> complexity[3],
     S_lint |-> lint, K_useful |-> keys[1], K_total |-> keys[2],
     S_sentiment |-> sentiment, H_types |-> hints, Q_difficulty |-> difficulty,
     absent |-> {}]

QuestionKeys ==
    {"T_think", "T_total", "T_stuck", "E_covered", "E_total", "C_initial",
     "C_final", "C_target", "S_lint", "K_useful", "K_total", "S_sentiment",
     "H_types", "Q_difficulty"}

\* Question 1 of the example, lines 94-103.
Question1 ==
    Question(<<120, 600, 45>>, <<3, 4>>, <<Dec(20, 10), Dec(10, 10), Dec(10, 10)>>,
             Dec(85, 100), <<400, 550>>, Dec(8, 10), <<FromInt(1)>>, FromInt(2))

\* Question 2 of the example, lines 104-113.
Question2 ==
    Question(<<300, 1200, 150>>, <<4, 6>>, <<Dec(25, 10), Dec(15, 10), Dec(15, 10)>>,
             Dec(70, 100), <<800, 1100>>, Dec(7, 10),
             <<FromInt(1), FromInt(2)>>, FromInt(3))

\* Every term at its best, on a hard question: think ratio 0.3, full coverage,
\* target reached from below, never stuck, no hints.
BestQuestion ==
    Question(<<3, 10, 0>>, <<4, 4>>, <<FromInt(1), FromInt(2), FromInt(2)>>,
             One, <<5, 5>>, One, <<>>, FromInt(5))

\* Every term at its worst: no coverage, code got worse, always stuck, no
\* keystrokes, sentiment 0, hints over budget.
WorstQuestion ==
    Question(<<10, 10, 10>>, <<0, 4>>, <<FromInt(1), FromInt(2), FromInt(1)>>,
             0, <<0, 0>>, 0, <<FromInt(2), FromInt(2)>>, FromInt(1))

\* No recorded time.
ZeroTimeQuestion ==
    Question(<<0, 0, 0>>, <<4, 4>>, <<FromInt(2), FromInt(1), FromInt(1)>>,
             One, <<5, 5>>, 0, <<>>, FromInt(3))

\* E_total = 0: outside the input contract.
ZeroCoverageQuestion ==
    Question(<<120, 600, 45>>, <<0, 0>>, <<FromInt(2), FromInt(1), FromInt(1)>>,
             One, <<5, 5>>, One, <<FromInt(1)>>, FromInt(3))

\* The target lies above the initial complexity by less than epsilon, and is
\* reached.
NearTargetQuestion ==
    Question(<<3, 10, 1>>, <<2, 4>>,
             <<FromInt(1), FromInt(1) + 5, FromInt(1) + 5>>,
             One, <<5, 5>>, One, <<>>, FromInt(3))

SampleQuestions ==
    {Question1, Question2, BestQuestion, WorstQuestion, ZeroTimeQuestion,
     ZeroCoverageQuestion, NearTargetQuestion}

\* Lists of up to MaxQuestions sample questions.
SampleLists == UNION {[1..n -> SampleQuestions] : n \in 0..MaxQuestions}

\* One question, every field group varied against every other.
GridQuestions ==
    {Question(t, e, <<ci, cf, ct>>, l, k, s, h, d) :
        t \in {<<0, 0, 0>>, <<120, 600, 45>>, <<3, 10, 10>>, <<10, 10, 0>>},
        e \in {<<0, 0>>, <<3, 4>>, <<4, 4>>},
        ci \in {FromInt(1), FromInt(2)},
        cf \in {FromInt(1), FromInt(2)},
        ct \in {FromInt(1), FromInt(2)},
        l \in {Dec(85, 100), One},
        k \in {<<0, 0>>, <<400, 550>>, <<5, 5>>},
        s \in {0, Dec(8, 10), One},
        h \in {<<>>, <<FromInt(1)>>},
        d \in {FromInt(2), FromInt(5)}}

\* A sample question with one key absent, alone or after Question 1.
AbsentLists ==
    {<<[q EXCEPT !.absent = {key}]>> :
        q \in {Question1, WorstQuestion}, key \in QuestionKeys}
    \cup {<<Question1, [q EXCEPT !.absent = {key}]>> :
        q \in {Question1, WorstQuestion}, key \in QuestionKeys}

Config(ps, code, resilience, autonomy, budget) ==
    [weights |-> [ps |-> ps, code |-> code, resilience |-> resilience,
                  autonomy |-> autonomy],
     hint_budget |-> budget, absent |-> {}]

\* The setup of the example, lines 117-125.
ExampleConfig == Config(Dec(4, 10), Dec(3, 10), Dec(1, 10), Dec(2, 10), One)

\* Weight sets: the example's, equal weights, autonomy alone, problem solving
\* alone, and all zero (outside the input contract).
SampleConfigs ==
    {Config(w[1], w[2], w[3], w[4], b) :
        w \in {<<Dec(4, 10), Dec(3, 10), Dec(1, 10), Dec(2, 10)>>,
               <<One, One, One, One>>, <<0, 0, 0, One>>, <<One, 0, 0, 0>>,
               <<0, 0, 0, 0>>},
        b \in {One, Dec(5, 10)}}

\* The example's setup with one key absent.
AbsentConfigs ==
    {[ExampleConfig EXCEPT !.absent = {key}] :
        key \in {"weights", "hint_budget"} \cup WeightKeys}

Inputs ==
    (SampleLists \X (SampleConfigs \cup AbsentConfigs))
    \cup ({<<q>> : q \in GridQuestions} \X {ExampleConfig})
    \cup (AbsentLists \X {ExampleConfig})

-----------------------------------------------------------------------------
(* The state machine: one call of calculate_scores.                        *)

VARIABLES
    questions_data,        \* the arguments
    interview_config,
    pc,                    \* where the call is: "loop", "averages", "autonomy",
                           \* "overall", "return", then "returned" or "raised"
    raised,                \* the exception that ended the call, or "none"
    ps_scores,             \* line 21
    code_scores,           \* line 22
    resilience_scores,     \* line 23
    total_hints_score,     \* line 26
    total_difficulty,      \* line 27
    avg_score_ps,          \* line 56
    avg_score_code,        \* line 57
    avg_score_resilience,  \* line 58
    score_autonomy,        \* line 63
    base_score,            \* line 70
    difficulty_factor,     \* line 72
    score_overall,         \* line 73
    report                 \* the dict returned, lines 76-86

args == <<questions_data, interview_config>>

lists == <<ps_scores, code_scores, resilience_scores>>

totals == <<total_hints_score, total_difficulty>>

averages == <<avg_score_ps, avg_score_code, avg_score_resilience>>

finals == <<base_score, difficulty_factor, score_overall>>

vars ==
    <<args, pc, raised, lists, totals, averages, score_autonomy, finals, report>>

\* line 28
num_questions == Len(questions_data)

\* The report before the call returns: no value of the program.
NoReport ==
    [ps |-> 0, code |-> 0, resilience |-> 0, autonomy |-> 0, overall |-> 0,
     base |-> 0, factor |-> 0]

\* Lines 18-28.  Locals the code has not assigned yet read 0 here.
Init ==
    /\ \E input \in Inputs :
           /\ questions_data = input[1]
           /\ interview_config = input[2]
    /\ pc = "loop"
    /\ raised = "none"
    /\ ps_scores = <<>>
    /\ code_scores = <<>>
    /\ resilience_scores = <<>>
    /\ total_hints_score = 0
    /\ total_difficulty = 0
    /\ avg_score_ps = 0
    /\ avg_score_code = 0
    /\ avg_score_resilience = 0
    /\ score_autonomy = 0
    /\ base_score = 0
    /\ difficulty_factor = 0
    /\ score_overall = 0
    /\ report = NoReport

\* Mutant of LoopBody: a failing pass is swallowed, the question scoring 0.
LoopBody_Swallow ==
    /\ pc = "loop"
    /\ Len(ps_scores) < num_questions
    /\ LET q == questions_data[Len(ps_scores) + 1]
           e == QuestionRaises(q)
       IN  IF e # "none"
           THEN /\ ps_scores' = Append(ps_scores, 0)
                /\ code_scores' = Append(code_scores, 0)
                /\ resilience_scores' = Append(resilience_scores, 0)
                /\ UNCHANGED <<pc, raised, totals>>
           ELSE /\ ps_scores' = Append(ps_scores, score_ps(q))
                /\ code_scores' = Append(code_scores, score_code(q))
                /\ resilience_scores' =
                       Append(resilience_scores, score_resilience(q))
                /\ total_hints_score' = total_hints_score + SumSeq(HintsOf(q))
                /\ total_difficulty' = total_difficulty + q.Q_difficulty
                /\ UNCHANGED <<pc, raised>>
    /\ UNCHANGED <<args, averages, score_autonomy, finals, report>>

\* Lines 31-53: one pass of the loop body, on the next question; the pass
\* either completes or raises, and a raise ends the call.
LoopBody ==
    /\ pc = "loop"
    /\ Len(ps_scores) < num_questions
    /\ LET q == questions_data[Len(ps_scores) + 1]
           e == QuestionRaises(q)
       IN  IF e # "none"
           THEN /\ pc' = "raised"
                /\ raised' = e
                /\ UNCHANGED <<lists, totals>>
           ELSE /\ ps_scores' = Append(ps_scores, score_ps(q))
                /\ code_scores' = Append(code_scores, score_code(q))
                /\ resilience_scores' =
                       Append(resilience_scores, score_resilience(q))
                /\ total_hints_score' = total_hints_score + SumSeq(HintsOf(q))
                /\ total_difficulty' = total_difficulty + q.Q_difficulty
                /\ UNCHANGED <<pc, raised>>
    /\ UNCHANGED <<args, averages, score_autonomy, finals, report>>

\* Line 31: the list is exhausted.
LoopExit ==
    /\ pc = "loop"
    /\ Len(ps_scores) = num_questions
    /\ pc' = "averages"
    /\ UNCHANGED <<args, raised, lists, totals, averages, score_autonomy,
                   finals, report>>

\* Lines 56-58.
Averages ==
    /\ pc = "averages"
    /\ avg_score_ps' = Average(ps_scores)
    /\ avg_score_code' = Average(code_scores)
    /\ avg_score_resilience' = Average(resilience_scores)
    /\ pc' = "autonomy"
    /\ UNCHANGED <<args, raised, lists, totals, score_autonomy, finals, report>>

\* Lines 61-63.
Autonomy ==
    /\ pc = "autonomy"
    /\ score_autonomy' =
           AutonomyScore(total_hints_score,
                         autonomy_denominator(total_difficulty, interview_config))
    /\ pc' = "overall"
    /\ UNCHANGED <<args, raised, lists, totals, averages, finals, report>>

\* Lines 66-73.
Overall ==
    /\ pc = "overall"
    /\ LET e == ConfigRaises(interview_config)
           base == BaseScore(interview_config.weights, avg_score_ps,
                             avg_score_code, avg_score_resilience,
                             score_autonomy)
           factor == DifficultyFactor(total_difficulty, num_questions)
       IN  IF e # "none"
           THEN /\ pc' = "raised"
                /\ raised' = e
                /\ UNCHANGED finals
           ELSE /\ base_score' = base
                /\ difficulty_factor' = factor
                /\ score_overall' = OverallScore(base, factor)
                /\ pc' = "return"
                /\ UNCHANGED raised
    /\ UNCHANGED <<args, lists, totals, averages, score_autonomy, report>>

\* Lines 76-86.
Report(ps, code, resilience, autonomy, overall, base, factor) ==
    [ps |-> Round2(ps), code |-> Round2(code), resilience |-> Round2(resilience),
     autonomy |-> Round2(autonomy), overall |-> Round2(overall),
     base |-> Round2(base), factor |-> Round2(factor)]

Return ==
    /\ pc = "return"
    /\ report' = Report(avg_score_ps, avg_score_code, avg_score_resilience,
                        score_autonomy, score_overall, base_score,
                        difficulty_factor)
    /\ pc' = "returned"
    /\ UNCHANGED <<args, raised, lists, totals, averages, score_autonomy, finals>>

Next == LoopBody \/ LoopExit \/ Averages \/ Autonomy \/ Overall \/ Return

Spec == Init /\ [][Next]_vars

-----------------------------------------------------------------------------
(* Properties.                                                             *)

\* The ranges of the data model (spec section 3), all keys present.
ValidQuestion(q) ==
    /\ q.absent = {}
    /\ 0 <= q.T_think /\ q.T_think <= q.T_total
    /\ 0 <= q.T_stuck /\ q.T_stuck <= q.T_total
    /\ 0 <= q.E_covered /\ q.E_covered <= q.E_total
    /\ 0 <= q.K_useful /\ q.K_useful <= q.K_total
    /\ 0 <= q.S_lint /\ q.S_lint <= One
    /\ 0 <= q.S_sentiment /\ q.S_sentiment <= One
    /\ \A i \in 1..Len(q.H_types) : q.H_types[i] >= 0
    /\ q.Q_difficulty > 0

ValidConfig(config) ==
    /\ config.absent = {}
    /\ \A k \in WeightKeys : config.weights[k] >= 0
    /\ base_score_denominator(config.weights) > 0
    /\ config.hint_budget > 0

ValidInput ==
    /\ \A i \in 1..num_questions : ValidQuestion(questions_data[i])
    /\ ValidConfig(interview_config)

InRange(x) == 0 <= x /\ x <= Ten

\* The questions the loop has completed.
Done == 1..Len(ps_scores)

\* The call has completed line 63 (resp. line 73).
AutonomyKnown == pc \in {"overall", "return", "returned"}

FinalsKnown == pc \in {"return", "returned"}

\* The config holds its weights, which sum to 0 (resp. to more than 0).
WeightsPresent ==
    Has(interview_config, "weights")
    /\ \A k \in WeightKeys : Has(interview_config, k)

C2_NeverRaisesOnDegenerateData ==
    (ValidInput /\ \A i \in 1..num_questions : questions_data[i].E_total > 0)
        => pc # "raised"

\* ----- C3 -----
\* C3: the Autonomy score is never negative, is 0 whenever total_hints >=
\* total_difficulty * hint_budget > 0, and for the same denominator no
\* smaller hint total scores lower and no larger one scores higher.
C3_AutonomyMonotone ==
    AutonomyKnown =>
        LET den == autonomy_denominator(total_difficulty, interview_config)
            half == Scale \div 2
            steps == total_hints_score \div half
        IN  /\ score_autonomy >= 0
            /\ (den > 0 /\ total_hints_score >= den) => score_autonomy = 0
            /\ \A n \in 0..steps :
                   AutonomyScore(n * half, den) >= score_autonomy
            /\ \A n \in 0..8 :
                   AutonomyScore(total_hints_score + n * half, den)
                       <= score_autonomy

\* Hints at or over a positive budget, after hints under it would have
\* scored above 0.
C3_Witness ==
    /\ pc = "returned"
    /\ autonomy_denominator(total_difficulty, interview_config) > 0
    /\ total_hints_score
           >= autonomy_denominator(total_difficulty, interview_config)
    /\ score_autonomy = 0
    /\ AutonomyScore(total_hints_score - One,
                     autonomy_denominator(total_difficulty, interview_config))
           > 0

\* ----- C4 -----
\* C4: with no question and weights of positive sum the call does not raise
\* and reports Problem-Solving = Coding Proficiency = Resilience = 0,
\* Difficulty Factor = 1, Autonomy = 10 and Overall = 1.2 * Base Score.
C4_NoQuestions ==
    (num_questions = 0 /\ WeightsPresent
     /\ base_score_denominator(interview_config.weights) > 0) =>
        /\ pc # "raised"
        /\ pc = "returned" =>
               /\ report.ps = 0 /\ report.code = 0 /\ report.resilience = 0
               /\ report.factor = One /\ difficulty_factor = One
               /\ report.autonomy = Ten
               /\ score_overall = Mul(Dec(12, 10), base_score)
               /\ report.overall = Round2(Mul(Dec(12, 10), base_score))

C4_Witness ==
    /\ num_questions = 0 /\ WeightsPresent
    /\ base_score_denominator(interview_config.weights) > 0
    /\ pc = "returned"
    /\ report.base > 0

ZeroDenominator ==
    \/ \E i \in 1..num_questions :
           Has(questions_data[i], "E_total") /\ questions_data[i].E_total = 0
    \/ WeightsPresent /\ base_score_denominator(interview_config.weights) = 0

\* C6: a question with E_total = 0, or weights that sum to 0, make the call
\* raise: it never reaches its return statement, the pass over a question
\* with E_total = 0 raises, and so does the division by a weight sum of 0.
C6_ZeroDenominatorRaises ==
    /\ [](ZeroDenominator => (~FinalsKnown /\ report = NoReport))
    /\ [][(pc = "loop" /\ Len(ps_scores) < num_questions
           /\ Has(questions_data[Len(ps_scores) + 1], "E_total")
           /\ questions_data[Len(ps_scores) + 1].E_total = 0)
              => pc' = "raised"]_vars
    /\ [][(pc = "overall" /\ WeightsPresent
           /\ base_score_denominator(interview_config.weights) = 0)
              => (pc' = "raised" /\ raised' = "ZeroDivisionError")]_vars

\* The second question has E_total = 0 and the pass over it has raised.
C6_Witness ==
    /\ pc = "raised" /\ raised = "ZeroDivisionError"
    /\ Len(ps_scores) = 1 /\ num_questions = 2
    /\ questions_data[1].T_total > 0
    /\ questions_data[2].E_total = 0

\* ----- C7 -----
\* A key whose absence from question q goes unnoticed: H_types is read with
\* a default, K_useful only when K_total > 0, T_stuck only when T_total > 0.
Unnoticed(q, key) ==
    \/ key = "H_types"
    \/ key = "K_useful" /\ Has(q, "K_total") /\ q.K_total <= 0
    \/ key = "T_stuck" /\ Has(q, "T_total") /\ q.T_total < 0

\* C7 as stated: if any key is absent from a question (H_types included) or
\* from the config (hint_budget and weights included) the call raises and
\* returns no report.
C7_AnyAbsentKeyRaises ==
    ((\E i \in 1..num_questions : questions_data[i].absent # {})
     \/ interview_config.absent # {}) => pc # "returned"

\* A key is absent whose absence does not go unnoticed.
NoticedAbsence ==
    \/ \E i \in 1..num_questions :
           \E key \in questions_data[i].absent :
               ~Unnoticed(questions_data[i], key)
    \/ interview_config.absent \ {"hint_budget"} # {}

\* An absent H_types has counted as no hints, an absent hint_budget as 1.0.
DefaultsApplied ==
    /\ total_hints_score =
           SumSeq([i \in 1..num_questions |->
                      IF Has(questions_data[i], "H_types")
                      THEN SumSeq(questions_data[i].H_types) ELSE 0])
    /\ ~Has(interview_config, "hint_budget") =>
           score_autonomy = AutonomyScore(total_hints_score, total_difficulty)

\* C7 amended: an absent key makes the call raise, except that an absent
\* H_types counts as no hints and an absent hint_budget as 1.0, and that an
\* absent K_useful goes unread when K_total <= 0 (and an absent T_stuck when
\* T_total < 0).
C7_AbsentKeyRaisesUnlessDefaulted ==
    /\ [](NoticedAbsence => (~FinalsKnown /\ report = NoReport))
    /\ [][(pc = "loop" /\ Len(ps_scores) < num_questions
           /\ \E key \in questions_data[Len(ps_scores) + 1].absent :
                  ~Unnoticed(questions_data[Len(ps_scores) + 1], key))
              => pc' = "raised"]_vars
    /\ [][(pc = "overall" /\ interview_config.absent \ {"hint_budget"} # {})
              => (pc' = "raised" /\ raised' = "KeyError")]_vars
    /\ [](pc = "returned" => DefaultsApplied)

\* A report returned for a question without H_types.
C7_Witness ==
    /\ pc = "returned"
    /\ \E i \in 1..num_questions : ~Has(questions_data[i], "H_types")

\* ----- C8 -----
Scenario ==
    questions_data = <<Question1>> /\ interview_config = ExampleConfig

\* C8 as stated: the single-question scenario reports Problem-Solving 7.75,
\* Coding Proficiency 8.35, Resilience 6.20, Autonomy 5.00 and Difficulty
\* Factor 0.67.
C8_ScenarioAsStated ==
    (Scenario /\ pc = "returned") =>
        /\ report.ps = Dec(775, 100)
        /\ report.code = Dec(835, 100)
        /\ report.resilience = Dec(620, 100)
        /\ report.autonomy = Dec(500, 100)
        /\ report.factor = Dec(67, 100)

\* C8 amended: the scenario reports Problem-Solving 8.46, Coding Proficiency
\* 9.00, Resilience 7.40, Autonomy 5.00 and Difficulty Factor 0.67; and the
\* call does return.
C8_Scenario ==
    Scenario =>
        /\ pc # "raised"
        /\ pc = "returned" =>
               /\ report.ps = Dec(846, 100)
               /\ report.code = Dec(900, 100)
               /\ report.resilience = Dec(740, 100)
               /\ report.autonomy = Dec(500, 100)
               /\ report.factor = Dec(67, 100)
               /\ total_hints_score = FromInt(1)
               /\ autonomy_denominator(total_difficulty, interview_config)
                      = FromInt(2)

C8_Witness == Scenario /\ pc = "returned"

\* ----- C9 -----
\* C9 as stated: a completed question with S_sentiment = 0 has Resilience 0;
\* and the pass over a question with T_total = 0 (T_think = T_stuck = 0, all
\* keys present, E_total > 0) does not raise but completes with Resilience 0.
C9_ZeroTimeQuestionCounted ==
    /\ \A i \in Done :
           questions_data[i].S_sentiment = 0 => resilience_scores[i] = 0
    /\ \A i \in 1..num_questions :
           LET q == questions_data[i]
           IN  (ValidQuestion(q) /\ q.T_total = 0 /\ q.E_total > 0) =>
                   /\ ~(pc = "raised" /\ Len(ps_scores) = i - 1)
                   /\ i \in Done => resilience_scores[i] = 0

\* ----- C10 -----
\* C10: base_score is computed from the unrounded averages and autonomy
\* score, score_overall from the unrounded base_score and difficulty_factor
\* (multiplier 1.2 at difficulty_factor = 1, no clamp), and each of the
\* seven reported values is the rounding of its own unrounded value.
C10_RoundingOnlyAtOutput ==
    /\ FinalsKnown =>
           /\ base_score =
                  Div(Mul(interview_config.weights.ps, avg_score_ps)
                      + Mul(interview_config.weights.code, avg_score_code)
                      + Mul(interview_config.weights.resilience,
                            avg_score_resilience)
                      + Mul(interview_config.weights.autonomy, score_autonomy),
                      base_score_denominator(interview_config.weights))
           /\ score_overall =
                  Mul(base_score,
                      Dec(8, 10) + Mul(Dec(4, 10), difficulty_factor))
           /\ difficulty_factor = One =>
                  score_overall = Mul(base_score, Dec(12, 10))
    /\ pc = "returned" =>
           /\ report.ps = Round2(avg_score_ps)
           /\ report.code = Round2(avg_score_code)
           /\ report.resilience = Round2(avg_score_resilience)
           /\ report.autonomy = Round2(score_autonomy)
           /\ report.overall = Round2(score_overall)
           /\ report.base = Round2(base_score)
           /\ report.factor = Round2(difficulty_factor)

\* A report whose Overall Score is above 10 and is not the formula applied
\* to its own Base Score and Difficulty Factor.
C10_Witness ==
    /\ pc = "returned"
    /\ report.overall > Ten
    /\ report.overall
           # Round2(Mul(report.base,
                        Dec(8, 10) + Mul(Dec(4, 10), report.factor)))

====
